---- MODULE Spec2Model ----
(***************************************************************************)
(* Model of stdx::exception_ptr (src/better_exception_ptr.h): the ordered  *)
(* handler chain of handle / handle_or_terminate, the typed extraction     *)
(* try_catch<T>, the compile-time handler inspection (ArgumentOf and the   *)
(* static_asserts), terminate_with_active, the rethrow/current_exception   *)
(* round trip, and the shared ownership of the payload by handle copies.   *)
(***************************************************************************)
EXTENDS Integers, Sequences, FiniteSets, TLC

\* Longest handler chain passed to one dispatch call.
MaxHandlers == 3

\* Ownership model: threads, handle objects and captured errors.
MaxThreads == 2
MaxSlots == 3
MaxPayloads == 2

VARIABLES
    chain,      \* the handlers of the call site, in argument order
    built,      \* which entry points compile for this chain
    h,          \* the handle: address of its payload, 0 when empty
    exc,        \* the exception object at the payload address
    owners,     \* reference count of the payload
    h2,         \* handle made by current_exception() in the round trip
    active,     \* the error currently raised / being handled
    pc,         \* position of the calling thread
    idx,        \* handler the (recursive) dispatch is at
    caught,     \* result of the last try_catch<Argument>()
    trace,      \* events of the call in progress
    pre,        \* handle state when the call in progress began
    rec,        \* outcome of each completed operation
    slot,       \* ownership model: the handle objects
    refcnt,     \* ownership model: reference count per payload
    alive,      \* ownership model: payload storage not yet released
    released,   \* ownership model: number of releases per payload
    tpc         \* ownership model: what each thread is in the middle of

dvars == <<chain, built, h, exc, owners, h2, active, pc, idx, caught, trace, pre, rec>>
ovars == <<slot, refcnt, alive, released, tpc>>
vars == <<dvars, ovars>>

---------------------------------------------------------------------------
\* Types, payloads, handlers

\* Derived derives from Base.
Derives(d, b) == d = b \/ (d = "Derived" /\ b = "Base")

NoExc == [shape |-> "none", type |-> "none", pointee |-> 0]

\* What can have been thrown: an object, or a pointer to an object.
Payloads ==
    { [shape |-> "obj", type |-> "Base", pointee |-> 0],
      [shape |-> "obj", type |-> "Derived", pointee |-> 0],
      [shape |-> "ptr", type |-> "Base", pointee |-> 7] }

\* Handlers with one lvalue-reference or pointer parameter.
GoodArgs ==
    { [cat |-> "ref", type |-> "Base"],
      [cat |-> "ref", type |-> "Derived"],
      [cat |-> "ptr", type |-> "Base"] }

Behaviours ==
    { [ret |-> "void", val |-> 0, raises |-> FALSE],
      [ret |-> "void", val |-> 0, raises |-> TRUE],
      [ret |-> "value", val |-> 0, raises |-> FALSE],
      [ret |-> "value", val |-> 1, raises |-> FALSE] }

GoodHandlers ==
    { [params |-> "one", cat |-> a.cat, type |-> a.type,
       ret |-> b.ret, val |-> b.val, raises |-> b.raises] : a \in GoodArgs, b \in Behaviours }

\* By value, by rvalue reference, no parameter, variadic catch-all.
OddHandlers ==
    { [params |-> "one", cat |-> "value", type |-> "Base", ret |-> "void", val |-> 0, raises |-> FALSE],
      [params |-> "one", cat |-> "rref", type |-> "Base", ret |-> "void", val |-> 0, raises |-> FALSE],
      [params |-> "none", cat |-> "none", type |-> "none", ret |-> "void", val |-> 0, raises |-> FALSE],
      [params |-> "variadic", cat |-> "none", type |-> "none", ret |-> "void", val |-> 0, raises |-> FALSE] }

Handlers == GoodHandlers \cup OddHandlers

Chains == UNION { [1..n -> Handlers] : n \in 0..MaxHandlers }

---------------------------------------------------------------------------
\* Handler Signature Inspector (compile time)

\* detail::ArgumentOf<T>: the declared parameter type, void, or catch_all_tag.
ArgumentOf(hd) ==
    CASE hd.params = "none" -> [cat |-> "void", type |-> "void"]
      [] hd.params = "variadic" -> [cat |-> "catch_all_tag", type |-> "catch_all_tag"]
      [] OTHER -> [cat |-> hd.cat, type |-> hd.type]

is_pointer(T) == T.cat = "ptr"
is_reference(T) == T.cat \in {"ref", "rref"}

\* static_assert(!is_same<Argument, catch_all_tag>) of handle / handle_or_terminate.
NotCatchAll(hd) == ArgumentOf(hd).cat # "catch_all_tag"

\* Variant: try_catch<T> without its static_assert.
TryCatchInstantiatesAny(T) == is_reference(T) \/ is_pointer(T) \/ T.cat = "value"

\* static_assert(is_reference_v<T> || is_pointer_v<T>) of try_catch<T>.
TryCatchInstantiates(T) == is_reference(T) \/ is_pointer(T)

\* handler(*caught): *caught is an lvalue, which no rvalue reference binds to.
InvocableWithCaught(hd) == ArgumentOf(hd).cat # "rref"

ShapeAccepted(hd) ==
    /\ NotCatchAll(hd)
    /\ TryCatchInstantiates(ArgumentOf(hd))
    /\ InvocableWithCaught(hd)

\* std::common_type_t<ReturnOf<Handler>, ReturnOf<Rest>...>: void and a value
\* type have no common type ("none": the template is not viable).
CommonType(c) ==
    IF \A i \in 1..Len(c) : c[i].ret = "void" THEN "void"
    ELSE IF \A i \in 1..Len(c) : c[i].ret = "value" THEN "value"
    ELSE "none"

\* Whether p.handle(chain...) compiles.
HandleCompiles(c) ==
    \/ Len(c) = 0
    \/ /\ CommonType(c) # "none"
       /\ \A i \in 1..Len(c) : ShapeAccepted(c[i])

\* Whether p.handle_or_terminate(chain...) compiles: the innermost instance
\* ends in "return handle_or_terminate();", a void operand, which is
\* ill-formed unless the declared common type is void.
HotCompiles(c) ==
    \/ Len(c) = 0
    \/ /\ CommonType(c) = "void"
       /\ \A i \in 1..Len(c) : ShapeAccepted(c[i])

---------------------------------------------------------------------------
\* Type Identity Resolver

\* The object stored at an address (one payload, at address 1).
ObjAt(a) == IF a = 1 THEN exc ELSE NoExc

\* The runtime's catch compatibility between a thrown object and typeid(T).
CatchMatches(e, T) ==
    \/ T.cat \in {"ref", "rref", "value"} /\ e.shape = "obj" /\ Derives(e.type, T.type)
    \/ T.cat = "ptr" /\ e.shape = "ptr" /\ Derives(e.type, T.type)

\* detail::try_catch(ex, &typeid(T)): a raw view of the payload, or nothing.
detail_try_catch(p, T) ==
    IF p # 0 /\ CatchMatches(ObjAt(p), T)
    THEN [ok |-> TRUE, raw |-> p]
    ELSE [ok |-> FALSE, raw |-> 0]

\* detail::type(ex) and detail::get_raw_ptr(ex).
detail_type(p) == ObjAt(p).type
detail_get_raw_ptr(p) == p

NoView(T) ==
    IF is_pointer(T) THEN [kind |-> "optional", has |-> FALSE, at |-> 0]
    ELSE [kind |-> "pointer", has |-> FALSE, at |-> 0]

\* Variant: the raw view is cast without testing whether there is one.
TryCatchAlways(p, T) ==
    IF is_pointer(T) THEN [kind |-> "optional", has |-> TRUE, at |-> ObjAt(p).pointee]
    ELSE [kind |-> "pointer", has |-> p # 0, at |-> p]

\* exception_ptr::try_catch<T>(): add_pointer_t<T> into the payload for a
\* reference T, optional<T> holding the thrown pointer for a pointer T.
try_catch(p, T) ==
    LET r == detail_try_catch(p, T) IN
    IF r.ok
    THEN IF is_pointer(T)
         THEN [kind |-> "optional", has |-> TRUE, at |-> ObjAt(r.raw).pointee]
         ELSE [kind |-> "pointer", has |-> r.raw # 0, at |-> r.raw]
    ELSE NoView(T)

---------------------------------------------------------------------------
\* Results and records

NoResult == [kind |-> "none", has |-> FALSE, val |-> 0]
BoolResult(b) == [kind |-> "bool", has |-> b, val |-> 0]
EmptyOptional == [kind |-> "optional", has |-> FALSE, val |-> 0]
Optional(v) == [kind |-> "optional", has |-> TRUE, val |-> v]
VoidResult == [kind |-> "void", has |-> FALSE, val |-> 0]
Value(v) == [kind |-> "value", has |-> TRUE, val |-> v]

NoActive == [src |-> "none", at |-> 0, by |-> 0]
Snapshot == [h |-> h, exc |-> exc, owners |-> owners]
NoSnapshot == [h |-> 0, exc |-> NoExc, owners |-> 0]

NoRec == [state |-> "none", result |-> NoResult, trace |-> <<>>, escaped |-> NoActive,
          pre |-> NoSnapshot, post |-> NoSnapshot]

Ops == {"handle", "hot", "roundtrip"}

Ev(e, i) == [e |-> e, i |-> i]

\* The call in progress ends: its outcome is recorded.
Finish(op, st, res, tr, esc) ==
    rec' = [rec EXCEPT ![op] = [state |-> st, result |-> res, trace |-> tr, escaped |-> esc,
                                pre |-> pre, post |-> [h |-> h', exc |-> exc', owners |-> owners']]]

---------------------------------------------------------------------------
\* The calling program: one handle, one call site per entry point

InitDispatch ==
    /\ chain \in Chains
    /\ \/ h = 0 /\ exc = NoExc /\ owners = 0
       \/ h = 1 /\ exc \in Payloads /\ owners = 1
    /\ built = [handle |-> FALSE, hot |-> FALSE]
    /\ h2 = 0
    /\ active = NoActive
    /\ pc = "src"
    /\ idx = 0
    /\ caught = NoView([cat |-> "ref", type |-> "Base"])
    /\ trace = <<>>
    /\ pre = NoSnapshot
    /\ rec = [o \in Ops |-> NoRec]

\* The translation unit is compiled. A call site that does not compile cannot
\* be part of the program; when neither entry point accepts the chain there
\* is no program to run.
Compile ==
    /\ pc = "src"
    /\ built' = [handle |-> HandleCompiles(chain), hot |-> HotCompiles(chain)]
    /\ pc' = IF built'.handle \/ built'.hot THEN "idle" ELSE "rejected"
    /\ UNCHANGED <<chain, h, exc, owners, h2, active, idx, caught, trace, pre, rec>>
    /\ UNCHANGED ovars

\* ---- exception_ptr::handle ----

\* bool handle(): no handler left, nothing is inspected.
HandleCallEmpty ==
    /\ pc = "idle" /\ built.handle /\ rec["handle"].state = "none"
    /\ Len(chain) = 0
    /\ pre' = Snapshot
    /\ UNCHANGED <<chain, built, h, exc, owners, h2, active, pc, idx, caught, trace>>
    /\ rec' = [rec EXCEPT !["handle"] =
                 [state |-> "returned", result |-> BoolResult(FALSE), trace |-> <<>>,
                  escaped |-> NoActive, pre |-> Snapshot, post |-> Snapshot]]
    /\ UNCHANGED ovars

HandleCall ==
    /\ pc = "idle" /\ built.handle /\ rec["handle"].state = "none"
    /\ Len(chain) > 0
    /\ pc' = "h_try"
    /\ idx' = 1
    /\ trace' = <<>>
    /\ pre' = Snapshot
    /\ UNCHANGED <<chain, built, h, exc, owners, h2, active, caught, rec>>
    /\ UNCHANGED ovars

\* auto caught = try_catch<Argument>()
HandleTryCatch ==
    /\ pc = "h_try"
    /\ caught' = try_catch(h, ArgumentOf(chain[idx]))
    /\ trace' = Append(trace, Ev("query", idx))
    /\ pc' = "h_test"
    /\ UNCHANGED <<chain, built, h, exc, owners, h2, active, idx, pre, rec>>
    /\ UNCHANGED ovars

\* Variant: the handler's value is tested for truth before it is wrapped.
HandleMatchedTruthy(hd) ==
    IF CommonType(chain) = "void" THEN BoolResult(TRUE)
    ELSE IF hd.val = 0 THEN EmptyOptional ELSE Optional(hd.val)

\* What handle leaves behind when the handler returns normally.
HandleMatched(hd) ==
    IF CommonType(chain) = "void" THEN BoolResult(TRUE) ELSE Optional(hd.val)

\* Variant: the matched handler is invoked but the chain is not left.
HandleInvokeFallsThrough ==
    /\ pc = "h_test" /\ caught.has
    /\ UNCHANGED <<chain, built, h, exc, owners, h2, active, caught, pre>>
    /\ IF idx < Len(chain)
       THEN /\ trace' = Append(trace, Ev("invoke", idx))
            /\ idx' = idx + 1
            /\ pc' = "h_try"
            /\ rec' = rec
       ELSE /\ trace' = <<>>
            /\ idx' = idx
            /\ pc' = "idle"
            /\ Finish("handle", "returned", HandleMatched(chain[idx]),
                      Append(trace, Ev("invoke", idx)), NoActive)
    /\ UNCHANGED ovars

\* if (caught) { handler(*caught); return true; } / return {handler(*caught)};
\* an exception leaving the handler leaves handle as well.
HandleInvoke ==
    /\ pc = "h_test" /\ caught.has
    /\ UNCHANGED <<chain, built, h, exc, owners, h2, active, idx, caught, pre>>
    /\ trace' = <<>>
    /\ pc' = "idle"
    /\ IF chain[idx].raises
       THEN Finish("handle", "propagated", NoResult, Append(trace, Ev("invoke", idx)),
                   [src |-> "handler", at |-> 0, by |-> idx])
       ELSE Finish("handle", "returned", HandleMatched(chain[idx]),
                   Append(trace, Ev("invoke", idx)), NoActive)
    /\ UNCHANGED ovars

\* Variant: without the if constexpr, "return handle();" converts false
\* into a present optional.
HandleExhaustedConverted ==
    /\ pc = "h_test" /\ ~caught.has /\ idx = Len(chain)
    /\ UNCHANGED <<chain, built, h, exc, owners, h2, active, idx, caught, pre>>
    /\ trace' = <<>>
    /\ pc' = "idle"
    /\ Finish("handle", "returned",
              IF CommonType(chain) = "void" THEN BoolResult(FALSE) ELSE Optional(0),
              trace, NoActive)
    /\ UNCHANGED ovars

\* if constexpr (sizeof...(Rest) == 0) return {};
HandleExhausted ==
    /\ pc = "h_test" /\ ~caught.has /\ idx = Len(chain)
    /\ UNCHANGED <<chain, built, h, exc, owners, h2, active, idx, caught, pre>>
    /\ trace' = <<>>
    /\ pc' = "idle"
    /\ Finish("handle", "returned",
              IF CommonType(chain) = "void" THEN BoolResult(FALSE) ELSE EmptyOptional,
              trace, NoActive)
    /\ UNCHANGED ovars

\* return handle(std::forward<Rest>(rest)...);
HandleRecurse ==
    /\ pc = "h_test" /\ ~caught.has /\ idx < Len(chain)
    /\ idx' = idx + 1
    /\ pc' = "h_try"
    /\ UNCHANGED <<chain, built, h, exc, owners, h2, active, caught, trace, pre, rec>>
    /\ UNCHANGED ovars

\* ---- exception_ptr::handle_or_terminate ----

\* [[noreturn]] void handle_or_terminate() { terminate_with_active(); }
HotCallEmpty ==
    /\ pc = "idle" /\ built.hot /\ rec["hot"].state = "none"
    /\ Len(chain) = 0
    /\ pc' = "t_rethrow"
    /\ idx' = 0
    /\ trace' = <<>>
    /\ pre' = Snapshot
    /\ UNCHANGED <<chain, built, h, exc, owners, h2, active, caught, rec>>
    /\ UNCHANGED ovars

HotCall ==
    /\ pc = "idle" /\ built.hot /\ rec["hot"].state = "none"
    /\ Len(chain) > 0
    /\ pc' = "t_try"
    /\ idx' = 1
    /\ trace' = <<>>
    /\ pre' = Snapshot
    /\ UNCHANGED <<chain, built, h, exc, owners, h2, active, caught, rec>>
    /\ UNCHANGED ovars

HotTryCatch ==
    /\ pc = "t_try"
    /\ caught' = try_catch(h, ArgumentOf(chain[idx]))
    /\ trace' = Append(trace, Ev("query", idx))
    /\ pc' = "t_test"
    /\ UNCHANGED <<chain, built, h, exc, owners, h2, active, idx, pre, rec>>
    /\ UNCHANGED ovars

\* Variant: an error leaving the handler is swallowed and treated as no match.
HotInvokeGuarded ==
    /\ pc = "t_test" /\ caught.has
    /\ UNCHANGED <<chain, built, h, exc, owners, h2, active, idx, caught, pre>>
    /\ IF chain[idx].raises
       THEN /\ trace' = Append(trace, Ev("invoke", idx))
            /\ pc' = "t_rethrow"
            /\ rec' = rec
       ELSE /\ trace' = <<>>
            /\ pc' = "idle"
            /\ Finish("hot", "returned",
                      IF chain[idx].ret = "void" THEN VoidResult ELSE Value(chain[idx].val),
                      Append(trace, Ev("invoke", idx)), NoActive)
    /\ UNCHANGED ovars

\* if (caught) return handler(*caught);
HotInvoke ==
    /\ pc = "t_test" /\ caught.has
    /\ UNCHANGED <<chain, built, h, exc, owners, h2, active, idx, caught, pre>>
    /\ trace' = <<>>
    /\ pc' = "idle"
    /\ IF chain[idx].raises
       THEN Finish("hot", "propagated", NoResult, Append(trace, Ev("invoke", idx)),
                   [src |-> "handler", at |-> 0, by |-> idx])
       ELSE Finish("hot", "returned",
                   IF chain[idx].ret = "void" THEN VoidResult ELSE Value(chain[idx].val),
                   Append(trace, Ev("invoke", idx)), NoActive)
    /\ UNCHANGED ovars

\* return handle_or_terminate(std::forward<Rest>(rest)...); with Rest left
HotRecurse ==
    /\ pc = "t_test" /\ ~caught.has /\ idx < Len(chain)
    /\ idx' = idx + 1
    /\ pc' = "t_try"
    /\ UNCHANGED <<chain, built, h, exc, owners, h2, active, caught, trace, pre, rec>>
    /\ UNCHANGED ovars

\* Variant: the exhausted chain falls off the end instead of escalating.
HotExhaustedReturns ==
    /\ pc = "t_test" /\ ~caught.has /\ idx = Len(chain)
    /\ UNCHANGED <<chain, built, h, exc, owners, h2, active, idx, caught, pre>>
    /\ trace' = <<>>
    /\ pc' = "idle"
    /\ Finish("hot", "returned", VoidResult, trace, NoActive)
    /\ UNCHANGED ovars

\* the same statement with Rest empty: handle_or_terminate() -> terminate_with_active()
HotExhausted ==
    /\ pc = "t_test" /\ ~caught.has /\ idx = Len(chain)
    /\ pc' = "t_rethrow"
    /\ UNCHANGED <<chain, built, h, exc, owners, h2, active, idx, caught, trace, pre, rec>>
    /\ UNCHANGED ovars

\* ---- exception_ptr::terminate_with_active ----

\* try { std::rethrow_exception(*this); }: the exception in flight refers to
\* the handle's payload and holds a reference to it.
TerminateRethrow ==
    /\ pc = "t_rethrow" /\ h # 0
    /\ active' = [src |-> "handle", at |-> h, by |-> 0]
    /\ owners' = owners + 1
    /\ trace' = Append(trace, Ev("rethrow", 0))
    /\ pc' = "t_catch"
    /\ UNCHANGED <<chain, built, h, exc, h2, idx, caught, pre, rec>>
    /\ UNCHANGED ovars

\* std::rethrow_exception of a null pointer is undefined: the runtime either
\* faults on the missing exception header or finds nothing to throw and calls
\* std::terminate itself. Nothing is raised either way.
TerminateRethrowNull ==
    /\ pc = "t_rethrow" /\ h = 0
    /\ UNCHANGED <<chain, built, h, exc, owners, h2, active, idx, caught, pre>>
    /\ pc' = "dead"
    /\ \E o \in {"crashed", "terminated"} :
         /\ trace' = IF o = "terminated" THEN Append(trace, Ev("terminate", 0)) ELSE trace
         /\ Finish("hot", o, NoResult, trace', NoActive)
    /\ UNCHANGED ovars

\* catch (...) { std::terminate(); }
TerminateCatch ==
    /\ pc = "t_catch"
    /\ UNCHANGED <<chain, built, h, exc, owners, h2, active, idx, caught, pre>>
    /\ trace' = Append(trace, Ev("terminate", 0))
    /\ pc' = "dead"
    /\ Finish("hot", "terminated", NoResult, trace', NoActive)
    /\ UNCHANGED ovars

\* ---- rethrow_exception / current_exception ----

\* Variant: the tag constructor captures nothing, the handle stays empty.
current_exception_empty == h2

\* exception_ptr(detail::current_exception_tag): the handle refers to the
\* exception being handled, or is empty when there is none.
current_exception == IF active.src = "handle" THEN active.at ELSE 0

\* try { stdx::rethrow_exception(h); } on a non-empty handle
RoundTripRethrow ==
    /\ pc = "idle" /\ rec["roundtrip"].state = "none"
    /\ h # 0
    /\ active' = [src |-> "handle", at |-> h, by |-> 0]
    /\ owners' = owners + 1
    /\ pre' = Snapshot
    /\ trace' = <<Ev("rethrow", 0)>>
    /\ pc' = "rt_catch"
    /\ UNCHANGED <<chain, built, h, exc, h2, idx, caught, rec>>
    /\ UNCHANGED ovars

\* catch (...) { h2 = stdx::current_exception(); }
RoundTripCapture ==
    /\ pc = "rt_catch"
    /\ h2' = current_exception
    /\ owners' = IF h2' # 0 THEN owners + 1 ELSE owners
    /\ trace' = Append(trace, Ev("capture", 0))
    /\ pc' = "rt_end"
    /\ UNCHANGED <<chain, built, h, exc, active, idx, caught, pre, rec>>
    /\ UNCHANGED ovars

\* the catch block ends: the runtime drops its reference
RoundTripEnd ==
    /\ pc = "rt_end"
    /\ active' = NoActive
    /\ owners' = owners - 1
    /\ UNCHANGED <<chain, built, h, exc, h2, idx, caught, pre>>
    /\ trace' = <<>>
    /\ pc' = "idle"
    /\ Finish("roundtrip", "returned", NoResult, trace, NoActive)
    /\ UNCHANGED ovars

NextDispatch ==
    \/ Compile
    \/ HandleCallEmpty \/ HandleCall \/ HandleTryCatch \/ HandleInvoke
    \/ HandleExhausted \/ HandleRecurse
    \/ HotCallEmpty \/ HotCall \/ HotTryCatch \/ HotInvoke \/ HotRecurse \/ HotExhausted
    \/ TerminateRethrow \/ TerminateRethrowNull \/ TerminateCatch
    \/ RoundTripRethrow \/ RoundTripCapture \/ RoundTripEnd

InitOwnIdle ==
    /\ slot = <<>>
    /\ refcnt = <<>>
    /\ alive = <<>>
    /\ released = <<>>
    /\ tpc = <<>>

Init == InitDispatch /\ InitOwnIdle

Next == NextDispatch

Spec == Init /\ [][Next]_vars

---------------------------------------------------------------------------
\* Shared ownership: exception_ptr is a std::exception_ptr, whose copies share
\* one reference-counted payload. A handle object is used by one thread at a
\* time; the count is shared by all of them. The captured error is no longer
\* being handled when the handles are passed around, so handles are its only
\* owners.

Threads == 1..MaxThreads
Slots == 1..MaxSlots
Addrs == 1..MaxPayloads

FreeSlot == [st |-> "free", owner |-> 0, ptr |-> 0, origin |-> 0]
Idle == [op |-> "idle", a |-> 0, s |-> 0]

InitHandles ==
    /\ slot = [s \in Slots |-> FreeSlot]
    /\ refcnt = [a \in Addrs |-> 0]
    /\ alive = [a \in Addrs |-> FALSE]
    /\ released = [a \in Addrs |-> 0]
    /\ tpc = [t \in Threads |-> Idle]

InitDispatchOff ==
    /\ chain = <<>>
    /\ built = [handle |-> FALSE, hot |-> FALSE]
    /\ h = 0 /\ exc = NoExc /\ owners = 0 /\ h2 = 0
    /\ active = NoActive
    /\ pc = "off"
    /\ idx = 0
    /\ caught = NoView([cat |-> "ref", type |-> "Base"])
    /\ trace = <<>>
    /\ pre = NoSnapshot
    /\ rec = [o \in Ops |-> NoRec]

\* Storage is handed out lowest address first (which free cell a new object
\* gets makes no difference to what follows).
IsFirstFree(s) == slot[s].st = "free" /\ \A x \in Slots : slot[x].st = "free" => s <= x
Fresh(a) == ~alive[a] /\ released[a] = 0
IsFirstFresh(a) == Fresh(a) /\ \A x \in Addrs : Fresh(x) => a <= x

\* A thread captures an error into a first handle (current_exception()).
Capture(t, s, a) ==
    /\ tpc[t] = Idle
    /\ IsFirstFree(s)
    /\ IsFirstFresh(a)
    /\ alive' = [alive EXCEPT ![a] = TRUE]
    /\ refcnt' = [refcnt EXCEPT ![a] = 1]
    /\ slot' = [slot EXCEPT ![s] = [st |-> "live", owner |-> t, ptr |-> a, origin |-> a]]
    /\ UNCHANGED <<released, tpc>>
    /\ UNCHANGED dvars

\* exception_ptr(const std::exception_ptr& ex) : std::exception_ptr(ex), first
\* half: the payload pointer is copied into the handle under construction.
CopyBegin(t, s, d) ==
    /\ tpc[t] = Idle
    /\ slot[s].st = "live" /\ slot[s].owner = t
    /\ IsFirstFree(d)
    /\ IF slot[s].ptr = 0
       THEN /\ slot' = [slot EXCEPT ![d] = [st |-> "live", owner |-> t, ptr |-> 0, origin |-> 0]]
            /\ tpc' = tpc
       ELSE /\ slot' = [slot EXCEPT ![d] = [st |-> "building", owner |-> t,
                                           ptr |-> slot[s].ptr, origin |-> slot[s].origin]]
            /\ tpc' = [tpc EXCEPT ![t] = [op |-> "addref", a |-> slot[s].ptr, s |-> d]]
    /\ UNCHANGED <<refcnt, alive, released>>
    /\ UNCHANGED dvars

\* Variant: the pointer is copied without taking a reference.
CopyNoAddRef(t, u) ==
    /\ tpc[t].op = "addref"
    /\ slot' = [slot EXCEPT ![tpc[t].s].st = "live", ![tpc[t].s].owner = u]
    /\ tpc' = [tpc EXCEPT ![t] = Idle]
    /\ UNCHANGED <<refcnt, alive, released>>
    /\ UNCHANGED dvars

\* second half: the reference count is incremented atomically; the new handle
\* is then thread u's.
CopyAddRef(t, u) ==
    /\ tpc[t].op = "addref"
    /\ refcnt' = [refcnt EXCEPT ![tpc[t].a] = @ + 1]
    /\ slot' = [slot EXCEPT ![tpc[t].s].st = "live", ![tpc[t].s].owner = u]
    /\ tpc' = [tpc EXCEPT ![t] = Idle]
    /\ UNCHANGED <<alive, released>>
    /\ UNCHANGED dvars

\* exception_ptr(std::exception_ptr&& ex) : std::exception_ptr(std::move(ex)):
\* the pointer changes hands, the source is left empty, the count untouched.
Move(t, s, d, u) ==
    /\ tpc[t] = Idle
    /\ slot[s].st = "live" /\ slot[s].owner = t
    /\ IsFirstFree(d)
    /\ slot' = [slot EXCEPT ![d] = [st |-> "live", owner |-> u,
                                    ptr |-> slot[s].ptr, origin |-> slot[s].origin],
                            ![s].ptr = 0, ![s].origin = 0]
    /\ UNCHANGED <<refcnt, alive, released, tpc>>
    /\ UNCHANGED dvars

\* ~exception_ptr(), first half: the count is decremented atomically and the
\* thread learns whether it dropped the last reference.
DestroyDec(t, s) ==
    /\ tpc[t] = Idle
    /\ slot[s].st = "live" /\ slot[s].owner = t
    /\ slot' = [slot EXCEPT ![s] = FreeSlot]
    /\ IF slot[s].ptr = 0
       THEN UNCHANGED <<refcnt, tpc>>
       ELSE /\ refcnt' = [refcnt EXCEPT ![slot[s].ptr] = @ - 1]
            /\ tpc' = IF refcnt'[slot[s].ptr] = 0
                      THEN [tpc EXCEPT ![t] = [op |-> "free", a |-> slot[s].ptr, s |-> 0]]
                      ELSE tpc
    /\ UNCHANGED <<alive, released>>
    /\ UNCHANGED dvars

\* second half, only for the last reference: the payload is released.
DestroyFree(t) ==
    /\ tpc[t].op = "free"
    /\ alive' = [alive EXCEPT ![tpc[t].a] = FALSE]
    /\ released' = [released EXCEPT ![tpc[t].a] = @ + 1]
    /\ tpc' = [tpc EXCEPT ![t] = Idle]
    /\ UNCHANGED <<slot, refcnt>>
    /\ UNCHANGED dvars

NextOwn ==
    \/ \E t \in Threads, s \in Slots, a \in Addrs : Capture(t, s, a)
    \/ \E t \in Threads, s \in Slots, d \in Slots : CopyBegin(t, s, d)
    \/ \E t \in Threads, u \in Threads : CopyAddRef(t, u)
    \/ \E t \in Threads, s \in Slots, d \in Slots, u \in Threads : Move(t, s, d, u)
    \/ \E t \in Threads, s \in Slots : DestroyDec(t, s)
    \/ \E t \in Threads : DestroyFree(t)

InitOwn == InitDispatchOff /\ InitHandles

SpecOwn == InitOwn /\ [][NextOwn]_vars

---------------------------------------------------------------------------
\* Vocabulary of the properties

\* The positions of the events of one kind, in order.
Idxs(tr, e) ==
    LET sel == SelectSeq(tr, LAMBDA x : x.e = e)
    IN [j \in 1..Len(sel) |-> sel[j].i]

Queries(n) == [j \in 1..n |-> Ev("query", j)]

IsPrefix(s, t) == Len(s) <= Len(t) /\ \A j \in 1..Len(s) : s[j] = t[j]

\* Positions whose declared match type is compatible with the payload.
MatchSet == { i \in 1..Len(chain) : h # 0 /\ CatchMatches(exc, ArgumentOf(chain[i])) }

\* The first such position, 0 when there is none.
FirstMatch == IF MatchSet = {} THEN 0 ELSE CHOOSE i \in MatchSet : \A j \in MatchSet : i <= j

Running(op) ==
    \/ op = "handle" /\ pc \in {"h_try", "h_test"}
    \/ op = "hot" /\ pc \in {"t_try", "t_test", "t_rethrow", "t_catch"}
    \/ op = "roundtrip" /\ pc \in {"rt_catch", "rt_end"}

\* The events of an operation so far: of the call in progress, or as recorded.
TraceOf(op) == IF Running(op) THEN trace ELSE rec[op].trace

Done(op) == rec[op].state # "none"

---------------------------------------------------------------------------
\* C1: handle invokes the handler at the first matching position k exactly
\* once and no other handler, also when a later handler matches as well; the
\* handlers before k are queried, in order, and never invoked.
C1_FirstMatchOnly ==
    ((Running("handle") \/ Done("handle")) /\ h # 0 /\ FirstMatch > 0) =>
        LET k == FirstMatch
            tr == TraceOf("handle")
        IN /\ IsPrefix(Idxs(tr, "invoke"), <<k>>)
           /\ IsPrefix(Idxs(tr, "query"), [j \in 1..k |-> j])
           /\ Done("handle") =>
                /\ Idxs(tr, "invoke") = <<k>>
                /\ Idxs(tr, "query") = [j \in 1..k |-> j]

C1_Witness ==
    /\ Done("handle") /\ h # 0
    /\ FirstMatch = 2
    /\ 3 \in MatchSet
    /\ Idxs(rec["handle"].trace, "invoke") = <<2>>

\* C2: when a handler matches and returns, handle's result is marked matched
\* and carries that handler's value (also a zero value), or true for chains
\* returning nothing; the result is present exactly if a handler was invoked.
C2_MatchedResult ==
    rec["handle"].state = "returned" =>
        LET r == rec["handle"].result
            inv == Idxs(rec["handle"].trace, "invoke")
        IN /\ r.has <=> inv # <<>>
           /\ FirstMatch > 0 =>
                /\ inv = <<FirstMatch>>
                /\ r = IF CommonType(chain) = "void" THEN BoolResult(TRUE)
                       ELSE Optional(chain[FirstMatch].val)

C2_Witness ==
    /\ rec["handle"].state = "returned"
    /\ FirstMatch = 2
    /\ 3 \in MatchSet
    /\ CommonType(chain) = "value"
    /\ chain[1].val = 1 /\ chain[2].val = 0 /\ chain[3].val = 1
    /\ rec["handle"].result = Optional(0)

\* C3: when no handler matches (any handle, any length), handle returns the
\* empty optional / false and invokes nothing; with no handlers at all it
\* returns without having queried the handle.
C3_NoMatchEmpty ==
    ((Running("handle") \/ Done("handle")) /\ FirstMatch = 0) =>
        /\ Idxs(TraceOf("handle"), "invoke") = <<>>
        /\ Done("handle") =>
             /\ rec["handle"].state = "returned"
             /\ rec["handle"].result =
                  IF CommonType(chain) = "void" THEN BoolResult(FALSE) ELSE EmptyOptional
             /\ rec["handle"].trace = Queries(Len(chain))
             /\ Len(chain) = 0 => rec["handle"].trace = <<>>

C3_Witness ==
    /\ Done("handle") /\ h # 0 /\ FirstMatch = 0
    /\ Len(chain) = 3
    /\ CommonType(chain) = "value"
    /\ rec["handle"].result = EmptyOptional

\* What C4 says of an escalation on a chain without a match.
Escalates ==
    LET tr == TraceOf("hot")
        n == Len(chain)
    IN /\ rec["hot"].state \in {"none", "terminated"}
       /\ Idxs(tr, "invoke") = <<>>
       /\ IsPrefix(tr, Queries(n) \o <<Ev("rethrow", 0), Ev("terminate", 0)>>)
       /\ Done("hot") =>
            /\ tr = Queries(n) \o <<Ev("rethrow", 0), Ev("terminate", 0)>>
            /\ pc = "dead"
            /\ active = [src |-> "handle", at |-> h, by |-> 0]
            /\ rec["hot"].escaped = NoActive

\* C4 as stated, for any handle: handle_or_terminate on a chain without a
\* match never returns, invokes nothing, and re-raises the held error before
\* terminating.
C4_AnyHandle == ((Running("hot") \/ Done("hot")) /\ FirstMatch = 0) => Escalates

\* C4 as amended, for a non-empty handle.
C4_NonEmptyHandle == ((Running("hot") \/ Done("hot")) /\ h # 0 /\ FirstMatch = 0) => Escalates

C4_Witness ==
    /\ h # 0 /\ FirstMatch = 0 /\ Len(chain) = 3
    /\ rec["hot"].state = "terminated"
    /\ pc = "dead"

\* C5: on a chain with a match, handle_or_terminate queries and invokes as
\* handle does and returns the handler's value unwrapped, equal to the value
\* inside handle's present result, without terminating.
C5_SameAsHandle ==
    (rec["handle"].state = "returned" /\ rec["handle"].result.has) =>
        /\ built.hot
        /\ Done("hot") =>
             /\ rec["hot"].state = "returned"
             /\ rec["hot"].trace = rec["handle"].trace
             /\ rec["hot"].result.val = rec["handle"].result.val
             /\ CommonType(chain) = "value" => rec["hot"].result = Value(rec["handle"].result.val)
             /\ pc # "dead"

\* C6: an error raised by the invoked handler leaves handle and
\* handle_or_terminate unchanged: no later handler is queried or invoked, no
\* result is returned, nothing is terminated.
C6_HandlerRaisePropagates ==
    \A op \in {"handle", "hot"} :
        (Done(op) /\ FirstMatch > 0 /\ chain[FirstMatch].raises) =>
            /\ rec[op].state = "propagated"
            /\ rec[op].escaped = [src |-> "handler", at |-> 0, by |-> FirstMatch]
            /\ rec[op].result = NoResult
            /\ rec[op].trace = Append(Queries(FirstMatch), Ev("invoke", FirstMatch))
            /\ pc # "dead"

C6_Witness ==
    /\ rec["handle"].state = "propagated"
    /\ rec["hot"].state = "propagated"
    /\ FirstMatch = 2 /\ 3 \in MatchSet
    /\ pc = "idle"

OneParam(hd, cats) == hd.params = "one" /\ hd.cat \in cats

\* C9 as stated: one parameter by value, reference or pointer is accepted;
\* zero parameters or a catch-all anywhere is rejected before anything runs.
C9_ByValueAccepted ==
    pc # "src" =>
        /\ ((\A i \in 1..Len(chain) : OneParam(chain[i], {"value", "ref", "ptr"}))
                /\ CommonType(chain) # "none") => built.handle
        /\ (\E i \in 1..Len(chain) : chain[i].params \in {"none", "variadic"}) =>
                (~built.handle /\ ~built.hot /\ pc = "rejected")

\* C9 as amended: one parameter by lvalue reference or by pointer is accepted
\* (given a common return type); a by-value, zero-parameter or catch-all
\* handler anywhere is rejected at compile time, so no runtime step ever has
\* such a handler in its chain.
C9_ShapeClassification ==
    pc # "src" =>
        /\ ((\A i \in 1..Len(chain) : OneParam(chain[i], {"ref", "ptr"}))
                /\ CommonType(chain) # "none") => built.handle
        /\ ((\A i \in 1..Len(chain) : OneParam(chain[i], {"ref", "ptr"}))
                /\ CommonType(chain) = "void") => built.hot
        /\ (\E i \in 1..Len(chain) :
                chain[i].params \in {"none", "variadic"} \/ OneParam(chain[i], {"value"})) =>
                /\ ~built.handle /\ ~built.hot /\ pc = "rejected"
                /\ trace = <<>>
                /\ \A op \in {"handle", "hot"} : ~Done(op)
        /\ (pc \notin {"rejected", "idle"} \/ \E op \in {"handle", "hot"} : Done(op)) =>
                \A i \in 1..Len(chain) : OneParam(chain[i], {"ref", "ptr"})

C9_Witness ==
    /\ pc = "rejected" /\ h # 0
    /\ Len(chain) = 2
    /\ OneParam(chain[1], {"ref"}) /\ 1 \in MatchSet
    /\ OneParam(chain[2], {"value"})

\* C10: try_catch<T> yields a view exactly if the payload matches T, the view
\* is into the handle's own payload, and neither try_catch nor a dispatch
\* that returns changes the handle, its payload or the number of owners.
C10_PureQuery ==
    /\ pc \in {"h_test", "t_test"} =>
         LET T == ArgumentOf(chain[idx]) IN
         /\ caught.has <=> (h # 0 /\ CatchMatches(exc, T))
         /\ caught.has => caught.at = IF is_pointer(T) THEN exc.pointee ELSE h
         /\ Snapshot = pre
    /\ pc \in {"h_try", "t_try"} => Snapshot = pre
    /\ \A op \in {"handle", "hot"} :
         rec[op].state = "returned" => rec[op].post = rec[op].pre

C10_Witness ==
    /\ pc = "h_test" /\ idx = 2
    /\ caught.has /\ caught.kind = "pointer" /\ caught.at = h
    /\ exc.type = "Derived" /\ chain[idx].type = "Base"
    /\ rec["hot"].state = "returned"
    /\ owners = 1

\* Handles (constructed or under construction) that refer to payload a.
Referring(a) == { s \in Slots : slot[s].st # "free" /\ slot[s].ptr = a }
Counted(a) == { s \in Slots : slot[s].st = "live" /\ slot[s].ptr = a }
Releasing(a) == { t \in Threads : tpc[t].op = "free" /\ tpc[t].a = a }

====
